---- MODULE Spec2Model ----
(***************************************************************************)
(* Model of the lindel DuckDB extension: the bind functions and the batch  *)
(* drivers of hilbert_encode / morton_encode / hilbert_decode /            *)
(* morton_decode, and the codec they call.                                 *)
(*                                                                         *)
(* Representation.  An unsigned integer of any width (a lane, a code word, *)
(* a whole data buffer) is the set of the positions of its 1 bits, bit 0   *)
(* being the least significant.  A data buffer is one such set over the    *)
(* bit positions of its bytes in address order (little endian): bit b of   *)
(* the value stored at byte offset o is buffer bit 8*o + b.  This keeps    *)
(* 64 and 128 bit values exact.                                            *)
(***************************************************************************)
EXTENDS Integers, Sequences, FiniteSets, TLC

(***************************************************************************)
(* Bounds of the model.                                                    *)
(***************************************************************************)
\* largest value of a grid coordinate drawn for a lane
MaxGrid == 4
\* largest batch size (args.size()) drawn for a batch call
MaxRows == 2
\* largest array length / requested number of parts drawn at bind
MaxParts == 17
\* largest seed of the tuples and code words drawn for a batch
MaxSeed == 1
\* largest small code word drawn for perform_decode
MaxWord == 20

(***************************************************************************)
(* Bit-set arithmetic.                                                     *)
(***************************************************************************)
\* a ^ b
Xor(a, b) == { x \in a \cup b : (x \in a) # (x \in b) }

\* the mask 2^k - 1
LowMask(k) == 0 .. (k - 1)

\* x >> 1
ShiftRight1(x) == { b - 1 : b \in x \ {0} }

\* the bit set of a small natural number
BitsOf(n) == { b \in 0..7 : (n \div (2 ^ b)) % 2 = 1 }

\* the array f[1], .. f[n] as a tuple of its elements
Elements(f) == f \o << >>

(***************************************************************************)
(* Morton codec.  lanes is the tuple handed to the encoder, lanes[j + 1]   *)
(* being element j of the array.  The first element is the most            *)
(* significant one of every group of N bits.                               *)
(***************************************************************************)
\* the layout with the first element least significant
morton_lane_position_first_lowest(n, j) == j - 1

morton_lane_position(n, j) == n - j

morton_encode_var(lanes) ==
  LET n == Len(lanes)
  IN  UNION { { i * n + morton_lane_position(n, j) : i \in lanes[j] } : j \in 1..n }

\* a de-interleave that takes the first lane from the lowest bit of each group
morton_decode_first_lowest(z, w, n) ==
  Elements([ j \in 1..n |-> { i \in 0..(w - 1) : (i * n + j - 1) \in z } ])

morton_decode(z, w, n) ==
  Elements([ j \in 1..n |-> { i \in 0..(w - 1) : (i * n + morton_lane_position(n, j)) \in z } ])

(***************************************************************************)
(* Hilbert codec: Skilling's transpose form of the Hilbert index followed  *)
(* by the Morton interleave of the transposed axes.                        *)
(***************************************************************************)
\* one step of the "inverse undo" loop for bit q and axis i
hilbert_undo_step(x, q, i) ==
  IF q \in x[i]
    THEN [x EXCEPT ![1] = Xor(x[1], LowMask(q))]
    ELSE LET t == { b \in Xor(x[1], x[i]) : b < q }
             y == [x EXCEPT ![1] = Xor(x[1], t)]
         IN  IF i = 1 THEN x ELSE [y EXCEPT ![i] = Xor(x[i], t)]

RECURSIVE hilbert_undo_axes(_, _, _)
\* axes i .. n in ascending order, for bit q
hilbert_undo_axes(x, q, i) ==
  IF i > Len(x) THEN x
  ELSE hilbert_undo_axes(hilbert_undo_step(x, q, i), q, i + 1)

RECURSIVE hilbert_undo_bits(_, _, _)
\* bits hi, hi - 1, .. lo (the range is halved to keep the evaluation shallow)
hilbert_undo_bits(x, hi, lo) ==
  IF Len(x) = 0 \/ hi < lo THEN x
  ELSE IF hi = lo THEN hilbert_undo_axes(x, hi, 1)
  ELSE LET mid == (hi + lo) \div 2
           upper == hilbert_undo_bits(x, hi, mid + 1)
       IN  hilbert_undo_bits(upper, mid, lo)

\* x[i] ^= x[i - 1] for i ascending: axis j becomes the xor of axes 1 .. j
hilbert_gray_encode(x, w) ==
  Elements([ j \in 1..Len(x) |->
      { b \in 0..(w - 1) : Cardinality({ i \in 1..j : b \in x[i] }) % 2 = 1 } ])

\* t ^= q - 1 for every bit q > 0 set in the last axis
hilbert_gray_mask(last, w) ==
  { b \in 0..(w - 1) : Cardinality({ q \in last : q > b }) % 2 = 1 }

hilbert_axes_to_transpose(lanes, w) ==
  LET n == Len(lanes)
      u == hilbert_undo_bits(lanes, w - 1, 1)
      g == hilbert_gray_encode(u, w)
      t == hilbert_gray_mask(g[n], w)
  IN  Elements([ j \in 1..n |-> Xor(g[j], t) ])

hilbert_encode_var(lanes, w) == morton_encode_var(hilbert_axes_to_transpose(lanes, w))

RECURSIVE hilbert_redo_axes(_, _, _)
\* axes i, i - 1, .. 1 in descending order, for bit q
hilbert_redo_axes(x, q, i) ==
  IF i < 1 THEN x
  ELSE hilbert_redo_axes(hilbert_undo_step(x, q, i), q, i - 1)

RECURSIVE hilbert_redo_bits(_, _, _)
\* bits lo, lo + 1, .. hi
hilbert_redo_bits(x, lo, hi) ==
  IF Len(x) = 0 \/ hi < lo THEN x
  ELSE IF hi = lo THEN hilbert_redo_axes(x, lo, Len(x))
  ELSE LET mid == (hi + lo) \div 2
           lower == hilbert_redo_bits(x, lo, mid)
       IN  hilbert_redo_bits(lower, mid + 1, hi)

\* a decoder without the Gray decode of the transposed index
hilbert_transpose_to_axes_no_gray(x, w) ==
  hilbert_redo_bits(x, 1, w - 1)

hilbert_transpose_to_axes(x, w) ==
  LET n == Len(x)
      t == ShiftRight1(x[n])
      g == Elements([ j \in 1..n |-> IF j = 1 THEN Xor(x[1], t) ELSE Xor(x[j], x[j - 1]) ])
  IN  hilbert_redo_bits(g, 1, w - 1)

hilbert_decode(z, w, n) == hilbert_transpose_to_axes(morton_decode(z, w, n), w)


(***************************************************************************)
(* Logical types.                                                          *)
(***************************************************************************)
UnsignedTypes == {"UTINYINT", "USMALLINT", "UINTEGER", "UBIGINT", "UHUGEINT"}
SignedTypes   == {"TINYINT", "SMALLINT", "INTEGER", "BIGINT", "HUGEINT"}
FloatTypes    == {"FLOAT", "DOUBLE"}

\* the element types the encode bind accepts
EncodableTypes ==
  {"DOUBLE", "FLOAT", "UBIGINT", "BIGINT", "UINTEGER", "INTEGER",
   "USMALLINT", "SMALLINT", "UTINYINT", "TINYINT"}

\* element types a caller can pass that the encode bind does not accept
OtherTypes == {"HUGEINT", "VARCHAR"}

\* the first-argument types the decode functions are registered for
types_that_can_be_decoded ==
  {"UTINYINT", "USMALLINT", "UINTEGER", "UBIGINT", "UHUGEINT"}

\* sizeof(T) * 8 of the physical type of a logical type; 0: not a fixed-width number
TypeWidth(t) ==
  CASE t \in {"UTINYINT", "TINYINT"}          -> 8
    [] t \in {"USMALLINT", "SMALLINT"}        -> 16
    [] t \in {"UINTEGER", "INTEGER", "FLOAT"} -> 32
    [] t \in {"UBIGINT", "BIGINT", "DOUBLE"}  -> 64
    [] t \in {"UHUGEINT", "HUGEINT"}          -> 128
    [] OTHER                                  -> 0

\* the function names LoadInternal registers
EncodeNames == {"hilbert_encode", "morton_encode"}
DecodeNames == {"hilbert_decode", "morton_decode"}

\* no bind data (a null unique_ptr) / no return type yet (LogicalType::ANY)
NoBind == [none |-> TRUE]
AnyType == "ANY"

(***************************************************************************)
(* struct lindelEncodingBindData.                                          *)
(***************************************************************************)
lindelEncodingBindData(encoding_type_p) == [encoding_type |-> encoding_type_p]

\* a copy that is always the Hilbert descriptor
CopyAsHilbert(bind_data) == lindelEncodingBindData(0)

\* lindelEncodingBindData::Copy
Copy(bind_data) == lindelEncodingBindData(bind_data.encoding_type)

\* lindelEncodingBindData::Equals
Equals(bind_data, other) == bind_data.encoding_type = other.encoding_type

(***************************************************************************)
(* lindelEncodeArrayBind.  The result is [ok, bind_data, return_type]: a   *)
(* throw gives ok = FALSE and leaves neither bind data nor a return type.  *)
(***************************************************************************)
BindError(msg) == [ok |-> FALSE, error |-> msg, bind_data |-> NoBind, return_type |-> AnyType]
BindOk(bd, rt) == [ok |-> TRUE, error |-> "", bind_data |-> bd, return_type |-> rt]

\* the switch on the element type and the array length; AnyType stands for a throw
EncodeReturnType(input_child_type, input_number_of_elements) ==
  LET n == input_number_of_elements
  IN  CASE input_child_type = "DOUBLE" ->
             (CASE n = 1 -> "UBIGINT" [] n = 2 -> "UHUGEINT" [] OTHER -> AnyType)
        [] input_child_type = "FLOAT" ->
             (CASE n = 1 -> "UINTEGER" [] n = 2 -> "UBIGINT"
                [] n \in {3, 4} -> "UHUGEINT" [] OTHER -> AnyType)
        [] input_child_type \in {"UBIGINT", "BIGINT"} ->
             (CASE n = 1 -> "UBIGINT" [] n = 2 -> "UHUGEINT" [] OTHER -> AnyType)
        [] input_child_type \in {"UINTEGER", "INTEGER"} ->
             (CASE n = 1 -> "UINTEGER" [] n = 2 -> "UBIGINT"
                [] n \in {3, 4} -> "UHUGEINT" [] OTHER -> AnyType)
        [] input_child_type \in {"USMALLINT", "SMALLINT"} ->
             (CASE n = 1 -> "USMALLINT" [] n = 2 -> "UINTEGER"
                [] n \in {3, 4} -> "UBIGINT" [] n \in 5..8 -> "UHUGEINT"
                [] OTHER -> AnyType)
        [] input_child_type \in {"UTINYINT", "TINYINT"} ->
             (CASE n = 1 -> "UTINYINT" [] n = 2 -> "USMALLINT"
                [] n \in {3, 4} -> "UINTEGER" [] n \in 5..8 -> "UBIGINT"
                [] n \in 9..16 -> "UHUGEINT" [] OTHER -> AnyType)
        [] OTHER -> AnyType

\* lindelEncodeArrayBind with the switch entered one array length too far
lindelEncodeArrayBindOffByOne(name, input_child_type, input_number_of_elements) ==
  IF name \notin EncodeNames
    THEN BindError("Unknown function name in lindelEncodeBind")
    ELSE LET encoding_type == IF name = "hilbert_encode" THEN 0 ELSE 1
             rt == EncodeReturnType(input_child_type, input_number_of_elements + 1)
         IN  IF rt = AnyType
               THEN BindError("hilbert_encode()/morton_encode() only supports ...")
               ELSE BindOk(lindelEncodingBindData(encoding_type), rt)

\* lindelEncodeArrayBind whose default cases fall through to the widest type
\* instead of throwing
lindelEncodeArrayBindNoThrow(name, input_child_type, input_number_of_elements) ==
  IF name \notin EncodeNames
    THEN BindError("Unknown function name in lindelEncodeBind")
    ELSE LET encoding_type == IF name = "hilbert_encode" THEN 0 ELSE 1
             rt == EncodeReturnType(input_child_type, input_number_of_elements)
         IN  BindOk(lindelEncodingBindData(encoding_type),
                    IF rt = AnyType THEN "UHUGEINT" ELSE rt)

lindelEncodeArrayBind(name, input_child_type, input_number_of_elements) ==
  IF name \notin EncodeNames
    THEN BindError("Unknown function name in lindelEncodeBind")
    ELSE LET encoding_type == IF name = "hilbert_encode" THEN 0 ELSE 1
             rt == EncodeReturnType(input_child_type, input_number_of_elements)
         IN  IF rt = AnyType
               THEN BindError("hilbert_encode()/morton_encode() only supports ...")
               ELSE BindOk(lindelEncodingBindData(encoding_type), rt)


(***************************************************************************)
(* lindelDecodeToArrayBind.                                                *)
(***************************************************************************)
\* LogicalType::ARRAY(base_type, parts)
ArrayType(base_type, parts) == [child |-> base_type, size |-> parts]

\* how argument 2, 3 or 4 of a decode call folds at bind time
FoldStates == {"const", "nonfold", "null"}

\* a lambda that does not look at val.IsNull()
get_foldable_value_nulls_pass(fold) ==
  IF \E k \in 1..3 : fold[k] = "nonfold"
    THEN "hilbert_decode(ANY, TINYINT, BOOLEAN, BOOLEAN)"
    ELSE ""

\* the lambda get_foldable_value over arguments 1..3: "" when all three fold
\* to a non-null value, else the message of the first throw
get_foldable_value(fold) ==
  LET bad == { k \in 1..3 : fold[k] # "const" }
  IN  IF bad = {} THEN ""
      ELSE LET k == CHOOSE k \in bad : \A m \in bad : k <= m
           IN  IF fold[k] = "nonfold"
                 THEN "hilbert_decode(ANY, TINYINT, BOOLEAN, BOOLEAN)"
                 ELSE "hilbert_decode(ANY, TINYINT, BOOLEAN, BOOLEAN) expected a not-null value"

\* the lambda set_return_type
set_return_type(bd, left_type, base_type, parts, type_options) ==
  IF left_type \notin type_options
    THEN BindError("Expected one of the following types")
    ELSE BindOk(bd, ArrayType(base_type, parts))

\* the signed or unsigned integer type of a width, as each ternary picks it
IntType(width, return_unsigned) ==
  CASE width = 8  -> IF return_unsigned THEN "UTINYINT" ELSE "TINYINT"
    [] width = 16 -> IF return_unsigned THEN "USMALLINT" ELSE "SMALLINT"
    [] width = 32 -> IF return_unsigned THEN "UINTEGER" ELSE "INTEGER"
    [] width = 64 -> IF return_unsigned THEN "UBIGINT" ELSE "BIGINT"

\* the type_map of each case of the integer switch: the lane width mapped to
\* return_number_of_parts, 0 when the map has no such key
DecodeTypeMap(left_type, parts) ==
  CASE left_type = "USMALLINT" ->
         (CASE parts = 2 -> 8 [] OTHER -> 0)
    [] left_type = "UINTEGER" ->
         (CASE parts = 2 -> 16 [] parts = 3 -> 8 [] OTHER -> 0)
    [] left_type = "UBIGINT" ->
         (CASE parts = 2 -> 32 [] parts \in 3..4 -> 16 [] parts \in 5..8 -> 8
            [] OTHER -> 0)
    [] left_type = "UHUGEINT" ->
         (CASE parts = 2 -> 64 [] parts \in 3..4 -> 32 [] parts \in 5..8 -> 16
            [] parts \in 9..16 -> 8 [] OTHER -> 0)
    [] OTHER -> 0

\* the lambda set_integer_return_type
set_integer_return_type(bd, left_type, base_type, parts, return_unsigned) ==
  LET w == DecodeTypeMap(base_type, parts)
  IN  IF w # 0
        THEN set_return_type(bd, left_type, IntType(w, return_unsigned), parts, {base_type})
        ELSE BindError("Expected <bounds> parts for <base_type>")

\* the branch taken when return_float is true
DecodeFloatBranch(bd, left_type, parts) ==
  CASE left_type = "UINTEGER" ->
         set_return_type(bd, left_type, "FLOAT", 1, {"UINTEGER"})
    [] left_type = "UBIGINT" ->
         (CASE parts = 1 -> set_return_type(bd, left_type, "DOUBLE", 1, {"UBIGINT"})
            [] parts = 2 -> set_return_type(bd, left_type, "FLOAT", 2, {"UBIGINT"})
            [] OTHER -> BindError("Expected 1 or 2 parts for UBIGINT"))
    [] left_type = "UHUGEINT" ->
         (CASE parts = 2 -> set_return_type(bd, left_type, "DOUBLE", 2, {"UHUGEINT"})
            [] parts \in 3..4 -> set_return_type(bd, left_type, "FLOAT", parts, {"UHUGEINT"})
            [] OTHER -> BindError("Expected 2-4 parts for UHUGEINT"))
    [] OTHER -> BindError("Expected UINTEGER, UBIGINT, or UHUGEINT")

\* a branch whose type_options hold every type its message names
DecodeOnePartBranchWithHuge(bd, left_type, return_unsigned) ==
  set_return_type(bd, left_type, left_type, 1,
                  { IntType(32, return_unsigned), IntType(16, return_unsigned),
                    IntType(8, return_unsigned), IntType(64, return_unsigned),
                    "UHUGEINT" })

\* the branch taken when return_number_of_parts is 1
DecodeOnePartBranch(bd, left_type, return_unsigned) ==
  set_return_type(bd, left_type, left_type, 1,
                  { IntType(32, return_unsigned), IntType(16, return_unsigned),
                    IntType(8, return_unsigned), IntType(64, return_unsigned) })

\* the final switch on the type of the value to decode
DecodeIntegerSwitch(bd, left_type, parts, return_unsigned) ==
  CASE left_type = "UTINYINT" -> BindError("Expected 1 parts for UTINYINT")
    [] left_type \in {"USMALLINT", "UINTEGER", "UBIGINT", "UHUGEINT"} ->
         set_integer_return_type(bd, left_type, left_type, parts, return_unsigned)
    [] OTHER -> BindError("Expected UINTEGER, USMALLINT, UTINYINT, UBIGINT, or UHUGEINT")

lindelDecodeToArrayBind(name, left_type, fold, return_number_of_parts, return_float, return_unsigned) ==
  LET bd == lindelEncodingBindData(IF name = "hilbert_decode" THEN 0 ELSE 1)
  IN  IF name \notin DecodeNames
        THEN BindError("Unknown function name in lindelDecodeToArrayBind")
      ELSE IF get_foldable_value(fold) # ""
        THEN BindError(get_foldable_value(fold))
      ELSE IF return_number_of_parts = 0
        THEN BindError("Number of parts to return must be greater than 0.")
      ELSE IF return_float
        THEN DecodeFloatBranch(bd, left_type, return_number_of_parts)
      ELSE IF return_number_of_parts = 1
        THEN DecodeOnePartBranch(bd, left_type, return_unsigned)
      ELSE DecodeIntegerSwitch(bd, left_type, return_number_of_parts, return_unsigned)

(***************************************************************************)
(* Data buffers.  Offsets and widths are in bits.                          *)
(***************************************************************************)
ReadWord(buf, bitoff, width) ==
  { b - bitoff : b \in { c \in buf : c >= bitoff /\ c <= bitoff + width - 1 } }

WriteWord(buf, bitoff, width, word) ==
  LET kept == { b \in buf : b < bitoff \/ b > bitoff + width - 1 }
      put  == { bitoff + b : b \in { c \in word : c < width } }
  IN  { b \in kept \cup put : TRUE }

\* n consecutive elements of width w, the first at bit offset bitoff
ReadLanes(buf, bitoff, w, n) ==
  Elements([ j \in 1..n |-> ReadWord(buf, bitoff + (j - 1) * w, w) ])

\* lanes[1], .. lanes[n] stored as consecutive elements of width w
WriteLanes(buf, bitoff, w, lanes) ==
  LET n == Len(lanes)
      kept == { b \in buf : b < bitoff \/ b > bitoff + n * w - 1 }
      put  == { bitoff + k : k \in { c \in 0 .. (n * w - 1) : (c % w) \in lanes[(c \div w) + 1] } }
  IN  { b \in kept \cup put : TRUE }

(***************************************************************************)
(* The codec entry points of rust.h.                                       *)
(***************************************************************************)
StandardWidths == {8, 16, 32, 64, 128}

\* the width of the key of len lanes of w bits: 0 when there is none
KeyWidth(w, len) ==
  LET fit == { c \in StandardWidths : c >= w * len }
  IN  IF fit = {} \/ len < 1 THEN 0
      ELSE CHOOSE c \in fit : \A d \in fit : c <= d

\* hilbert_encode_u{w}_var(ptr, len, result): result is the buffer after the call
hilbert_encode_u_var(w, src, src_bitoff, len, dst, dst_bitoff) ==
  WriteWord(dst, dst_bitoff, KeyWidth(w, len),
            hilbert_encode_var(ReadLanes(src, src_bitoff, w, len), w))

\* morton_encode_u{w}_var(ptr, len, result)
morton_encode_u_var(w, src, src_bitoff, len, dst, dst_bitoff) ==
  WriteWord(dst, dst_bitoff, KeyWidth(w, len),
            morton_encode_var(ReadLanes(src, src_bitoff, w, len)))

\* perform_decode(encoding_type, element_bit_width, src, dest, dest_len)
perform_decode(encoding_type, element_bit_width, src, src_bitoff, dst, dst_bitoff, dest_len) ==
  LET w == element_bit_width
      c == KeyWidth(w, dest_len)
      z == ReadWord(src, src_bitoff, c)
      lanes == IF encoding_type = 0 THEN hilbert_decode(z, w, dest_len)
                                    ELSE morton_decode(z, w, dest_len)
  IN  IF w \notin {8, 16, 32, 64} \/ c = 0 THEN dst
      ELSE WriteLanes(dst, dst_bitoff, w, lanes)


(***************************************************************************)
(* lindelEncodeArrayFunc.                                                  *)
(***************************************************************************)
\* the width of the typed result pointer each case of the switch indexes with
\* i (result_data_u8 .. result_data_u128); 0: the case throws NotImplemented
EncodeResultPointerWidth(child_type, array_number_of_elements) ==
  LET n == array_number_of_elements
  IN  CASE child_type = "DOUBLE" ->
             (CASE n = 1 -> 64 [] n = 2 -> 128 [] OTHER -> 0)
        [] child_type = "FLOAT" ->
             (CASE n = 1 -> 32 [] n \in {2, 3} -> 64 [] n = 4 -> 128 [] OTHER -> 0)
        [] child_type \in {"UBIGINT", "BIGINT"} ->
             (CASE n = 1 -> 64 [] n = 2 -> 128 [] OTHER -> 0)
        [] child_type \in {"UINTEGER", "INTEGER"} ->
             (CASE n = 1 -> 32 [] n \in {2, 3} -> 64 [] n = 4 -> 128 [] OTHER -> 0)
        [] child_type \in {"SMALLINT", "USMALLINT"} ->
             (CASE n = 1 -> 16 [] n = 2 -> 32 [] n \in {3, 4} -> 64
                [] n \in 5..8 -> 128 [] OTHER -> 0)
        [] child_type \in {"TINYINT", "UTINYINT"} ->
             (CASE n = 1 -> 8 [] n = 2 -> 16 [] n \in {3, 4} -> 32
                [] n \in 5..8 -> 64 [] n \in 9..16 -> 128 [] OTHER -> 0)
        [] OTHER -> 0

\* every case calling the Hilbert encoder, as the FLOAT case 4 does
EncoderCalledAlwaysHilbert(encoding_type, child_type, array_number_of_elements) == 0

\* the encoder a case calls: 0 a hilbert_encode_u*_var, 1 a morton_encode_u*_var
EncoderCalled(encoding_type, child_type, array_number_of_elements) ==
  IF child_type = "FLOAT" /\ array_number_of_elements = 4
    THEN 0
    ELSE IF encoding_type = 0 THEN 0 ELSE 1

\* the row loop body reading row i at element i instead of i * array length
EncodeRowUnscaled(bind_info, child_type, array_number_of_elements, left_data, result_data, i) ==
  LET left_idx == i
      left_offset == left_idx
      w == TypeWidth(child_type)
      p == EncodeResultPointerWidth(child_type, array_number_of_elements)
  IN  IF EncoderCalled(bind_info.encoding_type, child_type, array_number_of_elements) = 0
        THEN hilbert_encode_u_var(w, left_data, left_offset * w, array_number_of_elements,
                                  result_data, i * p)
        ELSE morton_encode_u_var(w, left_data, left_offset * w, array_number_of_elements,
                                 result_data, i * p)

\* the body of the switch for row i: the encoder call; result_data is the
\* result buffer
EncodeRow(bind_info, child_type, array_number_of_elements, left_data, result_data, i) ==
  LET left_idx == i
      left_offset == left_idx * array_number_of_elements
      w == TypeWidth(child_type)
      p == EncodeResultPointerWidth(child_type, array_number_of_elements)
  IN  IF EncoderCalled(bind_info.encoding_type, child_type, array_number_of_elements) = 0
        THEN hilbert_encode_u_var(w, left_data, left_offset * w, array_number_of_elements,
                                  result_data, i * p)
        ELSE morton_encode_u_var(w, left_data, left_offset * w, array_number_of_elements,
                                 result_data, i * p)

\* a pointer cast that flips the top bit of every lane
EncoderArgumentFlipped(child_type, array_number_of_elements, left_data, left_idx) ==
  LET left_offset == left_idx * array_number_of_elements
      w == TypeWidth(child_type)
      lanes == ReadLanes(left_data, left_offset * w, w, array_number_of_elements)
  IN  Elements([ j \in 1..array_number_of_elements |-> Xor(lanes[j], {w - 1}) ])

\* the lanes behind the pointer a case hands to the encoder for row left_idx:
\* (uintW_t *)(left_data + left_offset), array_number_of_elements of them
EncoderArgument(child_type, array_number_of_elements, left_data, left_idx) ==
  LET left_offset == left_idx * array_number_of_elements
  IN  ReadLanes(left_data, left_offset * TypeWidth(child_type), TypeWidth(child_type),
                array_number_of_elements)

\* left_child_validity.CheckAllValid(left_offset + array_number_of_elements, left_offset)
CheckAllValid(lane_null, to, from) ==
  \A e \in from .. (to - 1) : e \notin lane_null

\* the state of a call before its row loop: nothing thrown ("done" when the
\* loop ends so), the result buffer, the rows set null in the result, and the
\* codec calls made (row, argument)
StartOfCall(result_data) ==
  [status |-> "done", data |-> result_data, nulls |-> {}, calls |-> {},
   vector_type |-> "FLAT_VECTOR"]

\* a call that marks every result vector constant
SetVectorTypeAlways(r, size) ==
  [r EXCEPT !.vector_type = "CONSTANT_VECTOR"]

\* the end of both drivers, reached when no row has thrown:
\* if (args.size() == 1) result.SetVectorType(VectorType::CONSTANT_VECTOR)
SetVectorType(r, size) ==
  IF r.status = "done" /\ size = 1
    THEN [r EXCEPT !.vector_type = "CONSTANT_VECTOR"]
    ELSE r

\* a row loop that looks at the lanes' validity before the row's
EncodeLoopBodyLanesFirst(bind_info, child_type, array_number_of_elements, args, r, i) ==
  LET left_idx == i
      left_offset == left_idx * array_number_of_elements
  IN  IF ~CheckAllValid(args.lane_null, left_offset + array_number_of_elements, left_offset)
        THEN [r EXCEPT !.status = "input_error"]
      ELSE IF left_idx \in args.row_null
        THEN [r EXCEPT !.nulls = { j \in 0..i : j = i \/ j \in r.nulls }]
      ELSE IF EncodeResultPointerWidth(child_type, array_number_of_elements) = 0
        THEN [r EXCEPT !.status = "not_implemented"]
      ELSE [r EXCEPT
              !.data = EncodeRow(bind_info, child_type, array_number_of_elements,
                                 args.data, r.data, i),
              !.calls = r.calls \cup
                 {<<i, EncoderArgument(child_type, array_number_of_elements,
                                       args.data, left_idx)>>}]

\* one iteration of the row loop, for row i
EncodeLoopBody(bind_info, child_type, array_number_of_elements, args, r, i) ==
  LET left_idx == i
      left_offset == left_idx * array_number_of_elements
  IN  IF left_idx \in args.row_null
        THEN [r EXCEPT !.nulls = { j \in 0..i : j = i \/ j \in r.nulls }]
      ELSE IF ~CheckAllValid(args.lane_null, left_offset + array_number_of_elements, left_offset)
        THEN [r EXCEPT !.status = "input_error"]
      ELSE IF EncodeResultPointerWidth(child_type, array_number_of_elements) = 0
        THEN [r EXCEPT !.status = "not_implemented"]
      ELSE [r EXCEPT
              !.data = EncodeRow(bind_info, child_type, array_number_of_elements,
                                 args.data, r.data, i),
              !.calls = r.calls \cup
                 {<<i, EncoderArgument(child_type, array_number_of_elements,
                                       args.data, left_idx)>>}]

RECURSIVE EncodeRows(_, _, _, _, _, _)
\* rows i .. size - 1 in index order, until one of them throws
EncodeRows(bind_info, child_type, n, args, r, i) ==
  IF r.status # "done" \/ i >= args.size THEN r
  ELSE EncodeRows(bind_info, child_type, n, args,
                  EncodeLoopBody(bind_info, child_type, n, args, r, i), i + 1)

\* the whole call: [status, data, nulls, calls, vector_type]
lindelEncodeArrayFunc(bind_info, child_type, n, args, result_data) ==
  CHOOSE out \in { SetVectorType(r, args.size) :
                     r \in { EncodeRows(bind_info, child_type, n, args,
                                        StartOfCall(result_data), 0) } } : TRUE

(***************************************************************************)
(* lindelDecodeArrayFun.                                                   *)
(***************************************************************************)
\* a switch whose 8-bit cases pass the 16-bit width
DecodeElementBitWidthWide(output_child_type) ==
  CASE output_child_type \in {"UTINYINT", "TINYINT"}   -> 16
    [] output_child_type \in {"USMALLINT", "SMALLINT"} -> 16
    [] output_child_type \in {"UINTEGER", "INTEGER"}   -> 32
    [] output_child_type \in {"UBIGINT", "BIGINT"}     -> 64
    [] output_child_type \in {"UHUGEINT", "HUGEINT"}   -> 128
    [] output_child_type = "FLOAT"                     -> 32
    [] output_child_type = "DOUBLE"                    -> 64
    [] OTHER                                           -> 0

\* the element_bit_width each case of the switch on the output element type
\* passes, which is also the width of the typed pointers it indexes the input
\* (left_data_8 .. left_data_128) and the output with; 0: the default case
DecodeElementBitWidth(output_child_type) ==
  CASE output_child_type \in {"UTINYINT", "TINYINT"}   -> 8
    [] output_child_type \in {"USMALLINT", "SMALLINT"} -> 16
    [] output_child_type \in {"UINTEGER", "INTEGER"}   -> 32
    [] output_child_type \in {"UBIGINT", "BIGINT"}     -> 64
    [] output_child_type \in {"UHUGEINT", "HUGEINT"}   -> 128
    [] output_child_type = "FLOAT"                     -> 32
    [] output_child_type = "DOUBLE"                    -> 64
    [] OTHER                                           -> 0

\* the width of the typed output pointer of a case
DecodeResultPointerWidth(output_child_type) ==
  IF output_child_type \in {"UHUGEINT", "HUGEINT"} THEN 64
  ELSE DecodeElementBitWidth(output_child_type)

\* the bit offset of the code word handed to perform_decode for row left_idx
DecodeSourceOffset(output_child_type, left_idx) ==
  left_idx * DecodeElementBitWidth(output_child_type)

\* a switch body that indexes the output by the row instead of result_offset
DecodeRowUnscaled(bind_info, return_type, left_data, result_data, i) ==
  LET output_number_of_elements == return_type.size
      output_child_type == return_type.child
      left_idx == i
      result_offset == i
  IN  perform_decode(bind_info.encoding_type, DecodeElementBitWidth(output_child_type),
                     left_data, DecodeSourceOffset(output_child_type, left_idx),
                     result_data, result_offset * DecodeResultPointerWidth(output_child_type),
                     output_number_of_elements)

\* the body of the switch for row i: the perform_decode call
DecodeRow(bind_info, return_type, left_data, result_data, i) ==
  LET output_number_of_elements == return_type.size
      output_child_type == return_type.child
      left_idx == i
      result_offset == i * output_number_of_elements
  IN  perform_decode(bind_info.encoding_type, DecodeElementBitWidth(output_child_type),
                     left_data, DecodeSourceOffset(output_child_type, left_idx),
                     result_data, result_offset * DecodeResultPointerWidth(output_child_type),
                     output_number_of_elements)

\* the code word behind the pointer left_data_W + left_idx a case hands to
\* perform_decode
DecoderArgument(return_type, left_data, left_idx) ==
  ReadWord(left_data, DecodeSourceOffset(return_type.child, left_idx),
           KeyWidth(DecodeElementBitWidth(return_type.child), return_type.size))

\* one iteration of the row loop, for row i
DecodeLoopBody(bind_info, return_type, args, r, i) ==
  LET left_idx == i
  IN  IF left_idx \in args.row_null
        THEN [r EXCEPT !.nulls = { j \in 0..i : j = i \/ j \in r.nulls }]
      ELSE IF DecodeElementBitWidth(return_type.child) = 0
        THEN [r EXCEPT !.status = "not_implemented"]
      ELSE [r EXCEPT
              !.data = DecodeRow(bind_info, return_type, args.data, r.data, i),
              !.calls = r.calls \cup {<<i, DecoderArgument(return_type, args.data, left_idx)>>}]

RECURSIVE DecodeRows(_, _, _, _, _)
DecodeRows(bind_info, return_type, args, r, i) ==
  IF r.status # "done" \/ i >= args.size THEN r
  ELSE DecodeRows(bind_info, return_type, args,
                  DecodeLoopBody(bind_info, return_type, args, r, i), i + 1)

\* the whole call: [status, data, nulls, calls, vector_type]
lindelDecodeArrayFun(bind_info, return_type, args, result_data) ==
  CHOOSE out \in { SetVectorType(r, args.size) :
                     r \in { DecodeRows(bind_info, return_type, args,
                                        StartOfCall(result_data), 0) } } : TRUE


(***************************************************************************)
(* The state.                                                              *)
(*   plan   the SQL expression: "encode"  f_encode(array),                 *)
(*                              "decode"  f_decode(word, n, float, uns),   *)
(*                              "nested"  f_decode(f_encode(array), n, ..) *)
(*   enc    the encode call: its bound function, bind data, DataChunk and  *)
(*          result vector                                                  *)
(*   dec    the decode call, likewise                                      *)
(*   codec  one direct use of the codec on a tuple (specification          *)
(*          SpecCodec)                                                     *)
(***************************************************************************)
VARIABLES plan, enc, dec, codec, par

vars == <<plan, enc, dec, codec, par>>

NoChunk == [size |-> 0, data |-> {}, row_null |-> {}, lane_null |-> {}]

IdleCall == [pc |-> "idle"]

IdleCodec == [pc |-> "idle"]

IdlePar == [pc |-> "idle"]

\* the tuples drawn for a row: n lanes of w bits
TupleOf(w, n, seed) ==
  Elements([ j \in 1..n |->
      CASE seed = 0 -> BitsOf(j)
        [] seed = 1 -> {w - 1} \cup BitsOf(n + 1 - j)
        [] seed = 2 -> IF j = 1 THEN 0 .. (w - 1) ELSE {}
        [] OTHER    -> BitsOf((37 * seed + 11 * j) % 256) \cup {(seed + j) % w} ])

\* the code words of c bits drawn for a row
CodeOf(c, seed) ==
  CASE seed = 0 -> BitsOf(22)
    [] seed = 1 -> 0 .. (c - 1)
    [] OTHER    -> { b \in 0 .. (c - 1) : (b * (seed + 1)) % 5 < 2 }

Seeds == 0 .. MaxSeed

\* the seeds of the rows of a batch of k rows starting with seed s: successive
\* rows hold different values
RowSeeds(k, s) == Elements([ i \in 1..k |-> (s + i - 1) % (MaxSeed + 1) ])

\* the batches drawn: 1 .. MaxRows rows
Batches == { RowSeeds(k, s) : k \in 1..MaxRows, s \in Seeds }

\* the child buffer of an array vector holding tuple seeds[i + 1] in row i
FillRows(w, n, seeds) ==
  { b \in 0 .. (Len(seeds) * n * w - 1) :
      (b % w) \in TupleOf(w, n, seeds[(b \div (n * w)) + 1])[((b \div w) % n) + 1] }

\* the one-row chunks holding a point [a, b] of the grid
GridChunks(child_type, n) ==
  IF n # 2 THEN {}
  ELSE { [size |-> 1,
          data |-> WriteLanes({}, 0, TypeWidth(child_type), <<BitsOf(a), BitsOf(b)>>),
          row_null |-> {}, lane_null |-> {}] :
           a \in 0..MaxGrid, b \in 0..MaxGrid }

\* the validity of a batch of k rows: at most one null row
RowNulls(k) == { {} } \cup { {r} : r \in 0..(k - 1) }

\* the validity of a batch of k arrays of n elements: all valid, one null row,
\* one row whose last lane is null, or one null row whose last lane is null
NullCases(k, n) ==
  { [row_null |-> {}, lane_null |-> {}] }
    \cup { [row_null |-> {r}, lane_null |-> {}] : r \in 0..(k - 1) }
    \cup { [row_null |-> {}, lane_null |-> {r * n + n - 1}] : r \in 0..(k - 1) }
    \cup { [row_null |-> {r}, lane_null |-> {r * n + n - 1}] : r \in 0..(k - 1) }

\* the DataChunks an encode call can be given
EncodeChunks(child_type, n) ==
  UNION { LET data == FillRows(TypeWidth(child_type), n, seeds)
          IN  { [size |-> Len(seeds), data |-> data,
                 row_null |-> v.row_null, lane_null |-> v.lane_null] :
                  v \in NullCases(Len(seeds), n) } :
          seeds \in Batches }
    \cup GridChunks(child_type, n)

\* the buffer of a vector holding code word seeds[i + 1] in row i
FillWords(c, seeds) ==
  { b \in 0 .. (Len(seeds) * c - 1) : (b % c) \in CodeOf(c, seeds[(b \div c) + 1]) }

\* the DataChunks a decode call can be given
DecodeChunks(left_type) ==
  UNION { LET data == FillWords(TypeWidth(left_type), seeds)
          IN  { [size |-> Len(seeds), data |-> data, row_null |-> v, lane_null |-> {}] :
                  v \in RowNulls(Len(seeds)) } :
          seeds \in Batches }

\* what an output buffer of nbits bits holds before the call writes to it
StaleBuffers(nbits) == { {}, 0 .. (nbits - 1) }

\* at most one of the arguments 2..4 fails to fold to a value
FoldCases ==
  { f \in [1..3 -> FoldStates] : Cardinality({ k \in 1..3 : f[k] # "const" }) <= 1 }

AllConst == [k \in 1..3 |-> "const"]

DecodeNameOf(encode_name) ==
  IF encode_name = "hilbert_encode" THEN "hilbert_decode" ELSE "morton_decode"

NewEncodeCall(name, child_type, n) ==
  [pc |-> "unbound", name |-> name, child_type |-> child_type, length |-> n,
   bind_info |-> NoBind, return_type |-> AnyType, args |-> NoChunk, stale |-> {},
   result |-> {}, result_nulls |-> {}, calls |-> {}, vector_type |-> "FLAT_VECTOR",
   copy |-> NoBind]

NewDecodeCall(name, left_type, fold, parts, rf, ru) ==
  [pc |-> "unbound", name |-> name, left_type |-> left_type, fold |-> fold,
   return_number_of_parts |-> parts, return_float |-> rf, return_unsigned |-> ru,
   bind_info |-> NoBind, return_type |-> AnyType, args |-> NoChunk, stale |-> {},
   result |-> {}, result_nulls |-> {}, calls |-> {}, vector_type |-> "FLAT_VECTOR",
   copy |-> NoBind]

InitEncode ==
  /\ plan = "encode"
  /\ \E name \in EncodeNames, t \in EncodableTypes \cup OtherTypes, n \in 1..MaxParts :
       enc = NewEncodeCall(name, t, n)
  /\ dec = IdleCall
  /\ codec = IdleCodec
  /\ par = IdlePar

InitDecode ==
  /\ plan = "decode"
  /\ enc = IdleCall
  /\ \E name \in DecodeNames, t \in types_that_can_be_decoded, f \in FoldCases,
        n \in 0..MaxParts, rf \in BOOLEAN, ru \in BOOLEAN :
       dec = NewDecodeCall(name, t, f, n, rf, ru)
  /\ codec = IdleCodec
  /\ par = IdlePar

\* the decode call of a nested expression has the encode call's lane count and
\* curve; its first argument's type is the encode call's return type
InitNested ==
  /\ plan = "nested"
  /\ \E name \in EncodeNames, t \in EncodableTypes, n \in 1..MaxParts,
        rf \in BOOLEAN, ru \in BOOLEAN :
       /\ enc = NewEncodeCall(name, t, n)
       /\ dec = NewDecodeCall(DecodeNameOf(name), AnyType, AllConst, n, rf, ru)
  /\ codec = IdleCodec
  /\ par = IdlePar

Init == InitEncode \/ InitDecode \/ InitNested

\* the binder calls lindelEncodeArrayBind
EncodeBind ==
  /\ enc.pc = "unbound"
  /\ LET r == lindelEncodeArrayBind(enc.name, enc.child_type, enc.length)
     IN  enc' = [enc EXCEPT !.pc = IF r.ok THEN "bound" ELSE "bind_error",
                            !.bind_info = r.bind_data,
                            !.return_type = r.return_type]
  /\ UNCHANGED <<plan, dec, codec, par>>

\* the binder calls lindelDecodeToArrayBind; in a nested expression the inner
\* call is bound first
DecodeBind ==
  /\ dec.pc = "unbound"
  /\ plan = "nested" => enc.pc = "bound"
  /\ LET left_type == IF plan = "nested" THEN enc.return_type ELSE dec.left_type
         r == lindelDecodeToArrayBind(dec.name, left_type, dec.fold,
                                      dec.return_number_of_parts, dec.return_float,
                                      dec.return_unsigned)
     IN  dec' = [dec EXCEPT !.pc = IF r.ok THEN "bound" ELSE "bind_error",
                            !.left_type = left_type,
                            !.bind_info = r.bind_data,
                            !.return_type = r.return_type]
  /\ UNCHANGED <<plan, enc, codec, par>>

\* the executor calls lindelEncodeArrayFunc on one DataChunk; a nested
\* expression is executed only when the whole expression is bound
EncodeFunc ==
  /\ enc.pc = "bound"
  /\ plan = "nested" => dec.pc = "bound"
  /\ \E args \in EncodeChunks(enc.child_type, enc.length) :
       \E stale \in StaleBuffers(args.size * TypeWidth(enc.return_type)) :
         \E r \in { lindelEncodeArrayFunc(enc.bind_info, enc.child_type, enc.length,
                                            args, stale) } :
             enc' = [enc EXCEPT !.pc = r.status, !.args = args, !.stale = stale,
                                !.result = r.data, !.result_nulls = r.nulls,
                                !.calls = r.calls, !.vector_type = r.vector_type]
  /\ UNCHANGED <<plan, dec, codec, par>>

\* the executor calls lindelDecodeArrayFun on one DataChunk, which in a nested
\* expression is the result vector of the encode call
DecodeFun ==
  /\ dec.pc = "bound"
  /\ plan = "nested" => enc.pc = "done"
  /\ \E args \in IF plan = "nested"
                   THEN { [size |-> enc.args.size, data |-> enc.result,
                           row_null |-> enc.result_nulls, lane_null |-> {}] }
                   ELSE DecodeChunks(dec.left_type) :
       \E stale \in StaleBuffers(args.size * dec.return_type.size
                                   * TypeWidth(dec.return_type.child)) :
         \E r \in { lindelDecodeArrayFun(dec.bind_info, dec.return_type, args, stale) } :
             dec' = [dec EXCEPT !.pc = r.status, !.args = args, !.stale = stale,
                                !.result = r.data, !.result_nulls = r.nulls,
                                !.calls = r.calls, !.vector_type = r.vector_type]
  /\ UNCHANGED <<plan, enc, codec, par>>

\* the host copies the bound expression after a batch, and with it the bind
\* data of every call in it
CopyWithBindData(call) ==
  IF call.pc = "idle" THEN call ELSE [call EXCEPT !.copy = Copy(call.bind_info)]

CopyExpression ==
  /\ enc.pc \in {"idle", "done"}
  /\ dec.pc \in {"idle", "done"}
  /\ \/ enc.pc = "done" /\ enc.copy = NoBind
     \/ dec.pc = "done" /\ dec.copy = NoBind
  /\ enc' = CopyWithBindData(enc)
  /\ dec' = CopyWithBindData(dec)
  /\ UNCHANGED <<plan, codec, par>>

Next == EncodeBind \/ DecodeBind \/ EncodeFunc \/ DecodeFun \/ CopyExpression

Spec == Init /\ [][Next]_vars

(***************************************************************************)
(* The codec used directly on one tuple, through the entry points of       *)
(* rust.h: codec.key is the code word the encoder stores, codec.back the   *)
(* tuple perform_decode stores for it.                                     *)
(***************************************************************************)
\* the tuples of n lanes of w bits handed to the codec
CodecTuples(w, n) ==
  { TupleOf(w, n, seed) : seed \in Seeds }
    \cup (IF n = 2 THEN { <<BitsOf(a), BitsOf(b)>> : a \in 0..MaxGrid, b \in 0..MaxGrid }
                   ELSE {})

\* the code words of n * w bits handed to perform_decode: 2^m - 1, the small
\* words 0..MaxWord and their complements
CodecWords(w, n) ==
  { LowMask(m) : m \in 0..(n * w) }
    \cup { { b \in BitsOf(k) : b < n * w } : k \in 0..MaxWord }
    \cup { { b \in LowMask(n * w) : b \notin BitsOf(k) } : k \in 0..MaxWord }

CodecInit ==
  /\ par = IdlePar
  /\ plan = "codec"
  /\ enc = IdleCall
  /\ dec = IdleCall
  /\ \E encoding_type \in {0, 1}, w \in {8, 16, 32, 64}, n \in 1..MaxParts :
       /\ KeyWidth(w, n) # 0
       /\ \/ \E lanes \in CodecTuples(w, n) :
               codec = [pc |-> "drawn", encoding_type |-> encoding_type, w |-> w, n |-> n,
                        lanes |-> lanes, key |-> {}, back |-> << >>,
                        again |-> {}, next |-> << >>]
          \/ \E key \in CodecWords(w, n) :
               codec = [pc |-> "word", encoding_type |-> encoding_type, w |-> w, n |-> n,
                        lanes |-> << >>, key |-> key, back |-> << >>,
                        again |-> {}, next |-> << >>]

\* hilbert_encode_u{w}_var / morton_encode_u{w}_var on the tuple
CodecEncode ==
  /\ codec.pc = "drawn"
  /\ LET src == WriteLanes({}, 0, codec.w, codec.lanes)
         out == IF codec.encoding_type = 0
                  THEN hilbert_encode_u_var(codec.w, src, 0, codec.n, {}, 0)
                  ELSE morton_encode_u_var(codec.w, src, 0, codec.n, {}, 0)
     IN  codec' = [codec EXCEPT !.pc = "encoded",
                                !.key = ReadWord(out, 0, KeyWidth(codec.w, codec.n))]
  /\ UNCHANGED <<plan, enc, dec, par>>

\* perform_decode on the code word
CodecDecode ==
  /\ codec.pc \in {"encoded", "word"}
  /\ LET src == WriteWord({}, 0, KeyWidth(codec.w, codec.n), codec.key)
         out == perform_decode(codec.encoding_type, codec.w, src, 0, {}, 0, codec.n)
     IN  codec' = [codec EXCEPT !.pc = IF codec.pc = "encoded" THEN "decoded" ELSE "unpacked",
                                !.back = ReadLanes(out, 0, codec.w, codec.n)]
  /\ UNCHANGED <<plan, enc, dec, par>>

\* the encoder on the tuple perform_decode stored for a code word
CodecEncodeBack ==
  /\ codec.pc = "unpacked"
  /\ LET src == WriteLanes({}, 0, codec.w, codec.back)
         out == IF codec.encoding_type = 0
                  THEN hilbert_encode_u_var(codec.w, src, 0, codec.n, {}, 0)
                  ELSE morton_encode_u_var(codec.w, src, 0, codec.n, {}, 0)
     IN  codec' = [codec EXCEPT !.pc = "repacked",
                                !.again = ReadWord(out, 0, KeyWidth(codec.w, codec.n))]
  /\ UNCHANGED <<plan, enc, dec, par>>

\* the code word plus one, as a set of bits
Successor(x) ==
  LET m == CHOOSE m \in 0..129 : m \notin x /\ \A j \in 0..(m - 1) : j \in x
  IN  { b \in x : b > m } \cup {m}

\* perform_decode on the next code word of the curve, when there is one
CodecDecodeNext ==
  /\ codec.pc = "repacked"
  /\ codec.key # LowMask(codec.n * codec.w)
  /\ LET src == WriteWord({}, 0, KeyWidth(codec.w, codec.n), Successor(codec.key))
         out == perform_decode(codec.encoding_type, codec.w, src, 0, {}, 0, codec.n)
     IN  codec' = [codec EXCEPT !.pc = "stepped",
                                !.next = ReadLanes(out, 0, codec.w, codec.n)]
  /\ UNCHANGED <<plan, enc, dec, par>>

NextCodec == CodecEncode \/ CodecDecode \/ CodecEncodeBack \/ CodecDecodeNext

SpecCodec == CodecInit /\ [][NextCodec]_vars

(***************************************************************************)
(* Two executor threads running the same bound expression, each on its own *)
(* DataChunk and its own result vector, one row loop iteration at a time.  *)
(***************************************************************************)
\* the lane counts of the expressions run by two threads
ParLengths == 1 .. 4

\* both calls handed the same result buffer
ResultPointerShared(lens, t) == 0

\* the address of the result buffer of thread t: the buffers of the two result
\* vectors lie one after the other, lens[t] bits each
ResultPointer(lens, t) == IF t = 1 THEN 0 ELSE lens[1]

\* memory as seen through a pointer to bit address base, and back
ResultData(mem, base) == { a - base : a \in mem }

StoreResultData(data, base) == { a + base : a \in data }

\* what the result buffers and the 128 bits of memory behind them hold before
\* the calls: every other bit set, so that a write of either bit value shows
ParMemory(lens) == { a \in 0 .. (lens[1] + lens[2] + 127) : a % 2 = 0 }

\* a call before its row loop, without the buffer
ParStart == [StartOfCall({}) EXCEPT !.data = {}]

NewPar(kind, bind_info, child_type, n, return_type, args, lens, mem) ==
  [pc |-> "running", kind |-> kind, bind_info |-> bind_info, child_type |-> child_type,
   length |-> n, return_type |-> return_type, args |-> args, lens |-> lens,
   stale |-> mem, mem |-> mem, i |-> <<0, 0>>, returned |-> <<FALSE, FALSE>>,
   r |-> <<ParStart, ParStart>>]

\* one child type for each case of the switch of lindelEncodeArrayFunc
ParEncodeTypes == {"DOUBLE", "FLOAT", "UBIGINT", "INTEGER", "USMALLINT", "TINYINT"}

\* the chunks of the first thread: MaxRows rows
FullChunks(chunks) == { c \in chunks : c.size = MaxRows }

\* the chunk of the second thread: MaxRows rows, every row and lane valid, the
\* first row drawn with the last seed
ValidChunks(chunks, data) ==
  { c \in chunks : c.size = MaxRows /\ c.row_null = {} /\ c.lane_null = {} /\ c.data = data }

ParInitEncode ==
  \E name \in EncodeNames, t \in ParEncodeTypes, n \in ParLengths :
    \E b \in { lindelEncodeArrayBind(name, t, n) } :
      /\ b.ok
      /\ \E chunks \in { EncodeChunks(t, n) \ GridChunks(t, n) } :
         \E a1 \in FullChunks(chunks),
            a2 \in ValidChunks(chunks, FillRows(TypeWidth(t), n, RowSeeds(MaxRows, MaxSeed))) :
             \E lens \in { <<a1.size * TypeWidth(b.return_type),
                             a2.size * TypeWidth(b.return_type)>> } :
               \E mem \in { ParMemory(lens) } :
                 par = NewPar("encode", b.bind_data, t, n, b.return_type,
                              <<a1, a2>>, lens, mem)

ParInitDecode ==
  \E name \in DecodeNames, t \in types_that_can_be_decoded, n \in ParLengths,
     rf \in BOOLEAN, ru \in BOOLEAN :
    \E b \in { lindelDecodeToArrayBind(name, t, AllConst, n, rf, ru) } :
      /\ b.ok
      /\ \E chunks \in { DecodeChunks(t) } :
         \E a1 \in FullChunks(chunks),
            a2 \in ValidChunks(chunks, FillWords(TypeWidth(t), RowSeeds(MaxRows, MaxSeed))) :
             \E lens \in { <<a1.size * b.return_type.size * TypeWidth(b.return_type.child),
                             a2.size * b.return_type.size * TypeWidth(b.return_type.child)>> } :
               \E mem \in { ParMemory(lens) } :
                 par = NewPar("decode", b.bind_data, t, n, b.return_type,
                              <<a1, a2>>, lens, mem)

ParInit ==
  /\ plan = "parallel"
  /\ enc = IdleCall
  /\ dec = IdleCall
  /\ codec = IdleCodec
  /\ ParInitEncode \/ ParInitDecode

\* the state of thread t's call with the memory its result pointer sees
ParCall(t) ==
  [par.r[t] EXCEPT !.data = ResultData(par.mem, ResultPointer(par.lens, t))]

\* thread t has run one iteration of its row loop
ParAfter(t, r) ==
  [par EXCEPT !.mem = StoreResultData(r.data, ResultPointer(par.lens, t)),
              !.i[t] = par.i[t] + 1,
              !.r[t] = [r EXCEPT !.data = {}]]

ParCanStep(t) ==
  /\ par.pc = "running"
  /\ ~par.returned[t]
  /\ par.r[t].status = "done"
  /\ par.i[t] < par.args[t].size

\* a thread runs one iteration of the row loop of lindelEncodeArrayFunc
ParEncodeStep ==
  /\ \E t \in 1..2 :
       /\ ParCanStep(t)
       /\ par.kind = "encode"
       /\ \E r \in { EncodeLoopBody(par.bind_info, par.child_type, par.length,
                                    par.args[t], ParCall(t), par.i[t]) } :
            par' = ParAfter(t, r)
  /\ UNCHANGED <<plan, enc, dec, codec>>

\* a thread runs one iteration of the row loop of lindelDecodeArrayFun
ParDecodeStep ==
  /\ \E t \in 1..2 :
       /\ ParCanStep(t)
       /\ par.kind = "decode"
       /\ \E r \in { DecodeLoopBody(par.bind_info, par.return_type,
                                    par.args[t], ParCall(t), par.i[t]) } :
            par' = ParAfter(t, r)
  /\ UNCHANGED <<plan, enc, dec, codec>>

\* a thread's call ends: its loop is over or a row has thrown
ParReturn ==
  /\ \E t \in 1..2 :
       /\ par.pc = "running"
       /\ ~par.returned[t]
       /\ par.r[t].status # "done" \/ par.i[t] >= par.args[t].size
       /\ par' = [par EXCEPT !.returned[t] = TRUE,
                             !.r[t] = SetVectorType(par.r[t], par.args[t].size)]
  /\ UNCHANGED <<plan, enc, dec, codec>>

NextPar == ParEncodeStep \/ ParDecodeStep \/ ParReturn

SpecPar == ParInit /\ [][NextPar]_vars

(***************************************************************************)
(* Properties.  The encode table of the specification: lane width W, lane  *)
(* count N with N * W <= 128, and the code word width C(W, N).             *)
(***************************************************************************)
LaneWidths == {8, 16, 32, 64}

InEncodeTable(w, n) == w \in LaneWidths /\ n >= 1 /\ n * w <= 128

CodeWidth(w, n) ==
  CHOOSE c \in StandardWidths :
    c >= n * w /\ \A d \in StandardWidths : d >= n * w => c <= d

EncodeBindCalled == enc.pc \notin {"idle", "unbound"}

DecodeBindCalled == dec.pc \notin {"idle", "unbound"}

\* the rows of a call's DataChunk that are not null
ValidRows(call) == { i \in 0..(call.args.size - 1) : i \notin call.args.row_null }

\* the tuple in row i of the encode call's argument, and the key stored for it
EncodedTuple(i) ==
  ReadLanes(enc.args.data, i * enc.length * TypeWidth(enc.child_type),
            TypeWidth(enc.child_type), enc.length)

EncodedKey(i) ==
  ReadWord(enc.result, i * TypeWidth(enc.return_type), TypeWidth(enc.return_type))

\* the tuple stored in row i of the decode call's result
DecodedTuple(i) ==
  ReadLanes(dec.result, i * dec.return_type.size * TypeWidth(dec.return_type.child),
            TypeWidth(dec.return_type.child), dec.return_type.size)

\* the decode call is given a code word of a (C, N) the encode table produces
\* for lane width w, with constant arguments
DecodesTableRow(w) ==
  /\ DecodeBindCalled
  /\ dec.fold = AllConst
  /\ InEncodeTable(w, dec.return_number_of_parts)
  /\ dec.left_type \in UnsignedTypes
  /\ TypeWidth(dec.left_type) = CodeWidth(w, dec.return_number_of_parts)

\* C1: in f_decode(f_encode(L), N, false, true) over unsigned W-bit lanes of a
\* (W, N) of the encode table, the decode call is accepted and row i of its
\* result is the tuple L of row i, for every row of the batch.
RoundTripEveryRow ==
  (/\ plan = "nested"
   /\ enc.child_type \in UnsignedTypes
   /\ InEncodeTable(TypeWidth(enc.child_type), enc.length)
   /\ ~dec.return_float
   /\ dec.return_unsigned
   /\ DecodeBindCalled)
  => /\ dec.pc \notin {"bind_error", "not_implemented"}
     /\ (dec.pc = "done" =>
           \A i \in ValidRows(dec) : DecodedTuple(i) = EncodedTuple(i))

\* C2: for every supported element type and every array length N >= 1 with
\* N * W <= 128, encode bind succeeds under both names and the return type is
\* the unsigned integer whose width is the smallest standard width >= N * W.
EncodeBindReturnsSmallestWidth ==
  (/\ EncodeBindCalled
   /\ enc.name \in EncodeNames
   /\ enc.child_type \in EncodableTypes
   /\ enc.length * TypeWidth(enc.child_type) <= 128)
  => /\ enc.pc # "bind_error"
     /\ enc.bind_info # NoBind
     /\ enc.return_type \in UnsignedTypes
     /\ TypeWidth(enc.return_type) = CodeWidth(TypeWidth(enc.child_type), enc.length)

\* a bound morton_encode over SMALLINT[5] returns UHUGEINT
EncodeBindReturnsSmallestWidthWitness ==
  /\ enc.pc = "bound"
  /\ enc.name = "morton_encode"
  /\ enc.child_type = "SMALLINT"
  /\ enc.length = 5
  /\ enc.return_type = "UHUGEINT"

\* C3: encode bind fails and leaves no bind data when N * W > 128 or the
\* element type is not one of the ten supported numeric types.
EncodeBindRejectsOutsideTable ==
  (/\ EncodeBindCalled
   /\ \/ enc.child_type \notin EncodableTypes
      \/ enc.length * TypeWidth(enc.child_type) > 128)
  => /\ enc.pc = "bind_error"
     /\ enc.bind_info = NoBind
     /\ enc.return_type = AnyType

\* hilbert_encode over FLOAT[5] has been rejected
EncodeBindRejectsOutsideTableWitness ==
  /\ enc.pc = "bind_error"
  /\ enc.name = "hilbert_encode"
  /\ enc.child_type = "FLOAT"
  /\ enc.length = 5
  /\ enc.bind_info = NoBind

\* C4: for every row (W, N) of the encode table, decode bind on the unsigned
\* type of width C(W, N) with N parts and return_float = false succeeds and
\* returns an array of elements of width W.
DecodeBindAcceptsEncodeWidth ==
  \A w \in LaneWidths :
    (DecodesTableRow(w) /\ ~dec.return_float)
    => /\ dec.pc # "bind_error"
       /\ TypeWidth(dec.return_type.child) = w

\* C5: decode bind with return_float = false on a (C, N) of the encode table
\* returns unsigned elements when return_unsigned is true and signed elements
\* when it is false, for every N >= 1.
DecodeRepresentationFollowsFlag ==
  ((\E w \in LaneWidths : DecodesTableRow(w)) /\ ~dec.return_float)
  => /\ dec.pc # "bind_error"
     /\ dec.return_type.child \in
          (IF dec.return_unsigned THEN UnsignedTypes ELSE SignedTypes)

\* the float-legal (W, N)
FloatLegal == { <<32, 1>>, <<32, 2>>, <<32, 3>>, <<32, 4>>, <<64, 1>>, <<64, 2>> }

\* C6: decode bind with return_float = true succeeds only on a code word of
\* width C(W, N) for a float-legal (W, N), N being the requested number of
\* parts; on every other (C, N) it fails.
FloatDecodeOnlyFloatLegal ==
  (/\ DecodeBindCalled
   /\ dec.fold = AllConst
   /\ dec.return_float
   /\ dec.pc # "bind_error")
  => \E p \in FloatLegal :
       /\ p[2] = dec.return_number_of_parts
       /\ TypeWidth(dec.left_type) = CodeWidth(p[1], p[2])

\* C7: whenever decode bind succeeds, the returned array type has exactly as
\* many elements as the second argument asks for.
DecodeReturnsNElements ==
  (DecodeBindCalled /\ dec.pc # "bind_error")
  => dec.return_type.size = dec.return_number_of_parts

\* C8 as stated: bit (i * N + j) of morton_encode(L) is bit i of L[j], the
\* first lane taking the positions 0, N, 2N, ..
MortonFirstLaneLowest ==
  (codec.pc \in {"encoded", "decoded"} /\ codec.encoding_type = 1)
  => \A i \in 0..(codec.w - 1), j \in 0..(codec.n - 1) :
       ((i * codec.n + j) \in codec.key) <=> (i \in codec.lanes[j + 1])

\* C8 as amended: bit (i * N + (N - 1 - j)) of morton_encode(L) is bit i of
\* L[j], the last lane taking the positions 0, N, 2N, .. and the first lane
\* the positions N - 1, 2N - 1, ..; the code word has no other bit set.
MortonLastLaneLowest ==
  (codec.pc \in {"encoded", "decoded"} /\ codec.encoding_type = 1)
  => /\ \A i \in 0..(codec.w - 1), j \in 0..(codec.n - 1) :
          ((i * codec.n + (codec.n - 1 - j)) \in codec.key) <=> (i \in codec.lanes[j + 1])
     /\ codec.key \subseteq 0..(codec.w * codec.n - 1)

\* morton_encode of the three 16-bit lanes [1, 2, 3] has been computed: 29
MortonLastLaneLowestWitness ==
  /\ codec.pc = "encoded"
  /\ codec.encoding_type = 1
  /\ codec.w = 16
  /\ codec.lanes = <<{0}, {1}, {0, 1}>>
  /\ codec.key = {0, 2, 3, 4}

\* the fixture tables: entry [a + 1][b + 1] is the code of [a, b]
MortonGrid ==
  << <<0, 1, 4, 5, 16>>, <<2, 3, 6, 7, 18>>, <<8, 9, 12, 13, 24>>,
     <<10, 11, 14, 15, 26>>, <<32, 33, 36, 37, 48>> >>

HilbertGrid ==
  << <<0, 3, 4, 5, 58>>, <<1, 2, 7, 6, 57>>, <<14, 13, 8, 9, 54>>,
     <<15, 12, 11, 10, 53>>, <<16, 17, 30, 31, 32>> >>

\* the standard 2-D Hilbert curve of order 2 as <<x, y, index>>
HilbertCurve ==
  { <<0, 0, 0>>, <<1, 0, 1>>, <<1, 1, 2>>, <<0, 1, 3>>, <<0, 2, 4>>, <<0, 3, 5>>,
    <<1, 3, 6>>, <<1, 2, 7>>, <<2, 2, 8>>, <<2, 3, 9>>, <<3, 3, 10>>, <<3, 2, 11>>,
    <<3, 1, 12>>, <<2, 1, 13>>, <<2, 0, 14>>, <<3, 0, 15>> }

\* the integer element types of 8 and of 32 bits
FixtureTypes == {"TINYINT", "UTINYINT", "INTEGER", "UINTEGER"}

\* C9: morton_encode([a, b]) over 8-bit and over 32-bit lanes is entry [a][b]
\* of the Morton table for every a, b in 0..4, and morton_encode([1, 2, 3])
\* over three 8-bit lanes is 29.
MortonFixtures ==
  (enc.pc = "done" /\ enc.name = "morton_encode" /\ enc.child_type \in FixtureTypes)
  => \A i \in ValidRows(enc) :
       /\ enc.length = 2 =>
            \A a \in 0..4, b \in 0..4 :
              EncodedTuple(i) = <<BitsOf(a), BitsOf(b)>>
                => EncodedKey(i) = BitsOf(MortonGrid[a + 1][b + 1])
       /\ (/\ enc.length = 3
           /\ TypeWidth(enc.child_type) = 8
           /\ EncodedTuple(i) = <<BitsOf(1), BitsOf(2), BitsOf(3)>>)
          => EncodedKey(i) = BitsOf(29)

\* morton_encode([4, 4]::INTEGER[2]) has returned 48
MortonFixturesWitness ==
  /\ enc.pc = "done"
  /\ enc.name = "morton_encode"
  /\ enc.child_type = "INTEGER"
  /\ enc.length = 2
  /\ EncodedTuple(0) = <<BitsOf(4), BitsOf(4)>>
  /\ EncodedKey(0) = BitsOf(48)

\* C10: hilbert_encode([x, y]) over 8-bit and over 32-bit lanes is the index
\* of (x, y) on the standard 2-D Hilbert curve for x, y in 0..3, and entry
\* [x][y] of the Hilbert table for x, y in 0..4.
HilbertFixtures ==
  (/\ enc.pc = "done"
   /\ enc.name = "hilbert_encode"
   /\ enc.child_type \in FixtureTypes
   /\ enc.length = 2)
  => \A i \in ValidRows(enc) :
       /\ \A a \in 0..4, b \in 0..4 :
            EncodedTuple(i) = <<BitsOf(a), BitsOf(b)>>
              => EncodedKey(i) = BitsOf(HilbertGrid[a + 1][b + 1])
       /\ \A t \in HilbertCurve :
            EncodedTuple(i) = <<BitsOf(t[1]), BitsOf(t[2])>>
              => EncodedKey(i) = BitsOf(t[3])

\* hilbert_encode([0, 4]::TINYINT[2]) has returned 58
HilbertFixturesWitness ==
  /\ enc.pc = "done"
  /\ enc.name = "hilbert_encode"
  /\ enc.child_type = "TINYINT"
  /\ enc.length = 2
  /\ EncodedTuple(0) = <<BitsOf(0), BitsOf(4)>>
  /\ EncodedKey(0) = BitsOf(58)

\* the code word in row i of the decode call's argument
DecodedWord(i) ==
  ReadWord(dec.args.data, i * TypeWidth(dec.left_type), TypeWidth(dec.left_type))

\* C11: over three 8-bit lanes hilbert_encode([1, 2, 3]) is 22 in a 32-bit
\* code word, and hilbert_decode(22::UINTEGER, 3, false, false) is accepted
\* and returns the three 8-bit lanes [1, 2, 3] (the call of the fixture: the
\* code word is the first row of the batch).
HilbertFixture22 ==
  /\ (/\ enc.pc = "done"
      /\ enc.name = "hilbert_encode"
      /\ enc.child_type \in {"TINYINT", "UTINYINT"}
      /\ enc.length = 3)
     => /\ enc.return_type = "UINTEGER"
        /\ \A i \in ValidRows(enc) :
             EncodedTuple(i) = <<BitsOf(1), BitsOf(2), BitsOf(3)>>
               => EncodedKey(i) = BitsOf(22)
  /\ (/\ DecodeBindCalled
      /\ dec.name = "hilbert_decode"
      /\ dec.left_type = "UINTEGER"
      /\ dec.fold = AllConst
      /\ dec.return_number_of_parts = 3
      /\ ~dec.return_float
      /\ ~dec.return_unsigned)
     => /\ dec.pc \notin {"bind_error", "not_implemented"}
        /\ dec.return_type = ArrayType("TINYINT", 3)
        /\ (dec.pc = "done" /\ 0 \in ValidRows(dec) /\ DecodedWord(0) = BitsOf(22))
             => DecodedTuple(0) = <<BitsOf(1), BitsOf(2), BitsOf(3)>>

\* hilbert_decode(22::UINTEGER, 3, false, false) has returned [1, 2, 3]
HilbertFixture22Witness ==
  /\ plan = "decode"
  /\ dec.pc = "done"
  /\ dec.name = "hilbert_decode"
  /\ dec.left_type = "UINTEGER"
  /\ dec.return_number_of_parts = 3
  /\ ~dec.return_float
  /\ ~dec.return_unsigned
  /\ 0 \in ValidRows(dec)
  /\ DecodedWord(0) = BitsOf(22)
  /\ DecodedTuple(0) = <<BitsOf(1), BitsOf(2), BitsOf(3)>>

\* C12: for every Hilbert index k below the last one of the curve over n
\* lanes of w bits, perform_decode of k and of k + 1 give tuples that differ in
\* exactly one lane, and there by exactly one.
HilbertNeighboursAdjacent ==
  (codec.pc = "stepped" /\ codec.encoding_type = 0)
  => \E j \in 1..codec.n :
       /\ \/ codec.next[j] = Successor(codec.back[j])
          \/ codec.back[j] = Successor(codec.next[j])
       /\ \A i \in 1..codec.n : i # j => codec.next[i] = codec.back[i]

\* the Hilbert indices 2^12 - 1 and 2^12 over three 8-bit lanes have been
\* decoded: every bit of the index changes at this step
HilbertNeighboursAdjacentWitness ==
  /\ codec.pc = "stepped"
  /\ codec.encoding_type = 0
  /\ codec.w = 8
  /\ codec.n = 3
  /\ codec.key = LowMask(12)
  /\ codec.next # codec.back

\* C13: for both curves and every code word Z below 2^(n * w), the encoder
\* applied to the tuple perform_decode stores for Z gives Z again.
EncodeOfDecodeIsIdentity ==
  codec.pc \in {"repacked", "stepped"} => codec.again = codec.key

\* a Morton code word with bits in every lane has been decoded and encoded
EncodeOfDecodeIsIdentityWitness ==
  /\ codec.pc = "repacked"
  /\ codec.encoding_type = 1
  /\ codec.w = 16
  /\ codec.n = 5
  /\ codec.key = LowMask(77)
  /\ codec.again = codec.key

\* C14: in f_decode(f_encode(L), N, false, false) over signed W-bit lanes of a
\* (W, N) of the encode table, negative lanes included, the decode call is
\* accepted, returns signed lanes of the original width, and the tuple of
\* every row is exactly L.
SignedRoundTrip ==
  (/\ plan = "nested"
   /\ enc.child_type \in SignedTypes
   /\ InEncodeTable(TypeWidth(enc.child_type), enc.length)
   /\ ~dec.return_float
   /\ ~dec.return_unsigned
   /\ DecodeBindCalled)
  => /\ dec.pc \notin {"bind_error", "not_implemented"}
     /\ dec.return_type = ArrayType(enc.child_type, enc.length)
     /\ (dec.pc = "done" =>
           \A i \in ValidRows(dec) : DecodedTuple(i) = EncodedTuple(i))

\* the promotion of a W-bit lane: a signed lane is XORed with 2^(W-1), a float
\* lane has its top bit flipped when that bit is 0 and every bit inverted
\* otherwise, an unsigned lane is unchanged
Promote(child_type, lane) ==
  LET w == TypeWidth(child_type)
  IN  CASE child_type \in SignedTypes -> Xor(lane, {w - 1})
        [] child_type \in FloatTypes ->
             IF (w - 1) \in lane THEN { b \in LowMask(w) : b \notin lane }
                                 ELSE { b \in LowMask(w) : b = w - 1 \/ b \in lane }
        [] OTHER -> lane

\* the value of the encoder a case calls on a tuple
EncoderValue(lanes) ==
  IF EncoderCalled(enc.bind_info.encoding_type, enc.child_type, enc.length) = 0
    THEN hilbert_encode_var(lanes, TypeWidth(enc.child_type))
    ELSE morton_encode_var(lanes)

\* C15 as stated: on encode the driver hands the codec, for every row it
\* encodes, the promoted lanes of the row (signed: XOR 2^(W-1); float: top bit
\* flipped or all bits inverted; unsigned: unchanged).
DriverPromotesLanes ==
  enc.pc \in {"done", "input_error", "not_implemented"}
  => \A c \in enc.calls :
       c[2] = Elements([ j \in 1..enc.length |->
                           Promote(enc.child_type, EncodedTuple(c[1])[j]) ])

\* C15, amended: on encode the driver hands the codec, for every row it
\* encodes, the lanes of the row with their bit patterns unchanged, whatever
\* the element type; when the first row is the only row encoded, its code
\* word is the called encoder's value on these bit patterns.
DriverPassesLanesUnchanged ==
  enc.pc \in {"done", "input_error", "not_implemented"}
  => /\ \A c \in enc.calls : c[2] = EncodedTuple(c[1])
     /\ ({ c[1] : c \in enc.calls } = {0} /\ enc.pc = "done")
          => EncodedKey(0) = EncoderValue(EncodedTuple(0))

\* a row of two negative SMALLINT lanes has been encoded from its own bits
DriverPassesLanesUnchangedWitness ==
  /\ enc.pc = "done"
  /\ enc.child_type = "SMALLINT"
  /\ enc.length = 2
  /\ enc.args.size = 1
  /\ 15 \in EncodedTuple(0)[1]
  /\ 15 \in EncodedTuple(0)[2]
  /\ enc.calls = {<<0, EncodedTuple(0)>>}
  /\ EncodedKey(0) = EncoderValue(EncodedTuple(0))

\* C17: for every (W, N) of the encode table whose code word is wider than
\* N * W bits, the bits N * W and above of the code word of every encoded row
\* are zero.
CodeWordHighBitsZero ==
  (/\ enc.pc = "done"
   /\ InEncodeTable(TypeWidth(enc.child_type), enc.length)
   /\ CodeWidth(TypeWidth(enc.child_type), enc.length)
        > enc.length * TypeWidth(enc.child_type))
  => \A i \in ValidRows(enc) :
       \A b \in EncodedKey(i) : b < enc.length * TypeWidth(enc.child_type)

\* the number of valid rows of a call's DataChunk before row i
Rank(call, i) == Cardinality({ j \in ValidRows(call) : j < i })

\* the buffer of rowbits bits per row with the null rows of the call removed
WithoutNullRows(call, data, rowbits) ==
  { Rank(call, b \div rowbits) * rowbits + (b % rowbits) :
      b \in { c \in data : c < call.args.size * rowbits
                            /\ (c \div rowbits) \in ValidRows(call) } }

\* the DataChunk of a call with its null rows removed
ChunkWithoutNullRows(call, rowbits, n) ==
  [size |-> Cardinality(ValidRows(call)),
   data |-> WithoutNullRows(call, call.args.data, rowbits),
   row_null |-> {},
   lane_null |-> { Rank(call, e \div n) * n + (e % n) :
                     e \in { d \in call.args.lane_null : (d \div n) \in ValidRows(call) } }]

\* the result buffer before a call on k rows of rowbits bits, stale as the
\* call's own was
StaleLike(call, k, rowbits) ==
  IF call.stale = {} THEN {} ELSE 0 .. (k * rowbits - 1)

\* the results of the calls on the DataChunks without their null rows
EncodeWithoutNullRows ==
  lindelEncodeArrayFunc(enc.bind_info, enc.child_type, enc.length,
     ChunkWithoutNullRows(enc, enc.length * TypeWidth(enc.child_type), enc.length),
     StaleLike(enc, Cardinality(ValidRows(enc)), TypeWidth(enc.return_type)))

DecodeWithoutNullRows ==
  lindelDecodeArrayFun(dec.bind_info, dec.return_type,
     ChunkWithoutNullRows(dec, TypeWidth(dec.left_type), 1),
     StaleLike(dec, Cardinality(ValidRows(dec)),
               dec.return_type.size * TypeWidth(dec.return_type.child)))

\* C18: in both drivers a null row of the input gets a null row of the output
\* and no codec call, and the output of every other row is what the call
\* returns for it on the batch without the null rows.
NullRowGivesNullOnly ==
  /\ (enc.pc = "done" /\ enc.args.row_null # {})
     => /\ \A i \in enc.args.row_null :
             i \in enc.result_nulls /\ \A c \in enc.calls : c[1] # i
        /\ \A i \in ValidRows(enc) : i \notin enc.result_nulls
        /\ \E r \in { EncodeWithoutNullRows } :
             /\ r.status = "done"
             /\ \A i \in ValidRows(enc) :
                  EncodedKey(i) = ReadWord(r.data, Rank(enc, i) * TypeWidth(enc.return_type),
                                           TypeWidth(enc.return_type))
  /\ (dec.pc = "done" /\ dec.args.row_null # {})
     => /\ \A i \in dec.args.row_null :
             i \in dec.result_nulls /\ \A c \in dec.calls : c[1] # i
        /\ \A i \in ValidRows(dec) : i \notin dec.result_nulls
        /\ \E r \in { DecodeWithoutNullRows } :
             /\ r.status = "done"
             /\ \A i \in ValidRows(dec) :
                  DecodedTuple(i)
                    = ReadLanes(r.data,
                                Rank(dec, i) * dec.return_type.size
                                  * TypeWidth(dec.return_type.child),
                                TypeWidth(dec.return_type.child), dec.return_type.size)

\* the non-null rows of the encode call's DataChunk that have a null lane
RowsWithNullLane ==
  { i \in ValidRows(enc) : \E e \in enc.args.lane_null : e \div enc.length = i }

\* the rows the encode call handed to the encoder
RowsEncoded == { c[1] : c \in enc.calls }

\* C19: the encode driver takes the rows in index order; at the first non-null
\* row with a null lane it raises the input error and the call ends without a
\* result: every non-null row before it has been encoded and no row after
\* it; a null row raises no error, whatever the validity of its lanes.
NullLaneAbortsBatch ==
  enc.pc \in {"done", "input_error", "not_implemented"}
  => /\ RowsWithNullLane # {}
          => /\ enc.pc = "input_error"
             /\ \E first \in RowsWithNullLane :
                  /\ \A i \in RowsWithNullLane : first <= i
                  /\ RowsEncoded = { i \in ValidRows(enc) : i < first }
                  /\ enc.result_nulls = { i \in enc.args.row_null : i < first }
     /\ RowsWithNullLane = {} => enc.pc # "input_error"

\* a batch whose second row has a null lane has been aborted after the first
\* row was encoded
NullLaneAbortsBatchWitness ==
  /\ enc.pc = "input_error"
  /\ enc.args.size = 2
  /\ enc.args.row_null = {}
  /\ RowsWithNullLane = {1}
  /\ RowsEncoded = {0}

\* C20: decode bind raises an error and binds nothing when one of its
\* arguments 2 to 4 is not constant-foldable or folds to NULL, or when the
\* lane count is 0.
DecodeBindNeedsConstants ==
  (/\ DecodeBindCalled
   /\ \/ dec.fold # AllConst
      \/ dec.return_number_of_parts = 0)
  => /\ dec.pc = "bind_error"
     /\ dec.bind_info = NoBind
     /\ dec.return_type = AnyType

\* a decode call whose third argument folds to NULL has been rejected
DecodeBindNeedsConstantsWitness ==
  /\ dec.pc = "bind_error"
  /\ dec.fold[2] = "null"
  /\ dec.return_number_of_parts = 2
  /\ dec.bind_info = NoBind

\* what one step does to a call: its bind state never returns to unbound, its
\* descriptor and return type are set by no step after the bind, a rejected
\* call takes no further step, and a batch is executed only on a call in the
\* bound state, which holds a descriptor
CallStepsForward(call, next) ==
  call.pc # "idle"
  => /\ call.pc # "unbound" => next.pc # "unbound"
     /\ call.pc # "unbound"
          => next.bind_info = call.bind_info /\ next.return_type = call.return_type
     /\ call.pc = "bind_error" => next = call
     /\ next.pc = "bind_error" => next.bind_info = NoBind
     /\ next.pc = "bound" => next.bind_info # NoBind
     /\ next.args # call.args => call.pc = "bound" /\ call.bind_info # NoBind

\* C21: a call is bound at most once and never unbound again; a batch is
\* executed only on a call whose bind returned a descriptor; a bind that
\* raises leaves no descriptor, and no batch is executed for an element type
\* and lane count outside the encode table.
BoundOnceBeforeExecution ==
  [][ /\ CallStepsForward(enc, enc')
      /\ CallStepsForward(dec, dec')
      /\ (enc.pc # "idle" /\ enc'.args # enc.args)
           => /\ enc.child_type \in EncodableTypes
              /\ InEncodeTable(TypeWidth(enc.child_type), enc.length) ]_vars

\* both calls of a nested expression were bound and then executed
BoundOnceBeforeExecutionWitness ==
  /\ plan = "nested"
  /\ enc.pc = "done"
  /\ dec.pc = "done"
  /\ enc.bind_info # NoBind
  /\ dec.bind_info # NoBind

\* C23: after a batch call that returns, the result vector is marked constant
\* exactly when the batch has one row, in the encode and in the decode
\* driver, a single null row included.
ConstantVectorIffOneRow ==
  /\ enc.pc = "done" => (enc.vector_type = "CONSTANT_VECTOR" <=> enc.args.size = 1)
  /\ dec.pc = "done" => (dec.vector_type = "CONSTANT_VECTOR" <=> dec.args.size = 1)

\* a decode call on a batch of one null row has returned a constant vector
ConstantVectorIffOneRowWitness ==
  /\ dec.pc = "done"
  /\ dec.args.size = 1
  /\ dec.args.row_null = {0}
  /\ dec.result_nulls = {0}
  /\ dec.vector_type = "CONSTANT_VECTOR"

\* the value of the encoder of the bound function's name on a tuple
NamedEncoderValue(lanes) ==
  IF enc.name = "hilbert_encode"
    THEN hilbert_encode_var(lanes, TypeWidth(enc.child_type))
    ELSE morton_encode_var(lanes)

\* C24: for every call accepted by encode bind, the encoder called for the
\* rows is the one of the function's name, a Hilbert encoder for
\* hilbert_encode and a Morton encoder for morton_encode, for every element
\* type and lane count, FLOAT arrays of 4 elements included; the code word of
\* a batch of one row is that encoder's value.
EncoderFollowsBoundKind ==
  (enc.pc = "done" /\ enc.calls # {})
  => /\ EncoderCalled(enc.bind_info.encoding_type, enc.child_type, enc.length)
          = (IF enc.name = "hilbert_encode" THEN 0 ELSE 1)
     /\ (enc.args.size = 1 => EncodedKey(0) = NamedEncoderValue(EncodedTuple(0)))

\* C25: in an encode batch every encoded row i has its code word in slot i of
\* the result vector, at the width of the bound return type, and the slots of
\* the other rows are not changed by it: a null row's slot holds what it held
\* before the call; so for INTEGER and FLOAT arrays of 3 elements row i
\* occupies bytes 16 * i .. 16 * i + 15.
RowWrittenToOwnSlot ==
  enc.pc = "done"
  => /\ \A i \in ValidRows(enc) : EncodedKey(i) = EncoderValue(EncodedTuple(i))
     /\ \A i \in enc.args.row_null :
          EncodedKey(i) = ReadWord(enc.stale, i * TypeWidth(enc.return_type),
                                   TypeWidth(enc.return_type))

\* C26: in a decode batch the code word handed to the codec for row i is
\* element i of the input vector, read at the width of the input's type, for
\* every accepted code word type and part count, the part counts of two and
\* more included, where the returned lanes are narrower than the code word.
DecoderGivenOwnCodeWord ==
  dec.pc = "done" => \A c \in dec.calls : c[2] = DecodedWord(c[1])

\* the tuple the codec of the bound kind returns for a code word
DecoderValue(word) ==
  IF dec.bind_info.encoding_type = 0
    THEN hilbert_decode(word, DecodeElementBitWidth(dec.return_type.child),
                        dec.return_type.size)
    ELSE morton_decode(word, DecodeElementBitWidth(dec.return_type.child),
                       dec.return_type.size)

\* C27: in a decode batch of N lanes per row, a decoded row i has the lanes
\* of its tuple in lanes i * N .. i * N + N - 1 of the result's child vector,
\* in lane order, and no other lane is changed by it: the lanes of a null row
\* hold what they held before the call.
DecodeWritesOwnLanes ==
  dec.pc = "done"
  => /\ \A c \in dec.calls : DecodedTuple(c[1]) = DecoderValue(c[2])
     /\ \A i \in dec.args.row_null :
          DecodedTuple(i)
            = ReadLanes(dec.stale,
                        i * dec.return_type.size * TypeWidth(dec.return_type.child),
                        TypeWidth(dec.return_type.child), dec.return_type.size)

\* the second row of a batch was decoded into lanes 3..5 next to a null row
\* whose lanes 0..2 kept the ones they held
DecodeWritesOwnLanesWitness ==
  /\ dec.pc = "done"
  /\ dec.args.size = 2
  /\ dec.args.row_null = {0}
  /\ dec.return_type.size = 3
  /\ dec.stale # {}
  /\ \E c \in dec.calls : c[1] = 1 /\ DecodedTuple(1) = DecoderValue(c[2])
  /\ DecodedTuple(0) = ReadLanes(dec.stale, 0, TypeWidth(dec.return_type.child), 3)

\* C28: every call accepted by encode bind or by decode bind has a branch in
\* its driver: the switch of lindelEncodeArrayFunc reaches no
\* NotImplementedException for a bound element type and length, and the
\* switch of lindelDecodeArrayFun never reaches its default for a bound
\* return type.
BoundCallsHaveBranch ==
  /\ enc.pc \in {"bound", "done", "input_error", "not_implemented"}
       => /\ EncodeResultPointerWidth(enc.child_type, enc.length) # 0
          /\ enc.pc # "not_implemented"
  /\ dec.pc \in {"bound", "done", "not_implemented"}
       => /\ DecodeElementBitWidth(dec.return_type.child) # 0
          /\ dec.pc # "not_implemented"

\* a nested expression over sixteen 8-bit lanes, the last row of both
\* tables, has been executed by both drivers
BoundCallsHaveBranchWitness ==
  /\ plan = "nested"
  /\ enc.pc = "done"
  /\ enc.child_type = "UTINYINT"
  /\ enc.length = 16
  /\ enc.calls # {}
  /\ dec.pc = "done"
  /\ dec.calls # {}

\* C29: every array type decode bind returns has elements of 8, 16, 32 or 64
\* bits: no accepted code word type, part count and flags give a 128-bit
\* element type, so the UHUGEINT/HUGEINT case of lindelDecodeArrayFun is never
\* executed.
DecodeNeverReturns128 ==
  dec.pc \in {"bound", "done", "not_implemented"}
  => /\ TypeWidth(dec.return_type.child) \in {8, 16, 32, 64}
     /\ DecodeElementBitWidth(dec.return_type.child) # 128

\* a decode call on a 128-bit code word with one part has been rejected
\* rather than bound to UHUGEINT[1]; with two parts it returns 64-bit lanes
DecodeNeverReturns128Witness ==
  /\ dec.pc = "done"
  /\ dec.left_type = "UHUGEINT"
  /\ dec.return_number_of_parts = 2
  /\ dec.return_unsigned
  /\ dec.return_type = ArrayType("UBIGINT", 2)
  /\ dec.calls # {}

\* the encoding kind of a function name
KindOfName(name) == IF name \in {"hilbert_encode", "hilbert_decode"} THEN 0 ELSE 1

\* the descriptor of a call, from its bind on, is the one of its name, and so
\* is its copy, which Equals reports equal in both directions
DescriptorOfName(call) ==
  call.pc \in {"bound", "done", "input_error", "not_implemented"}
  => /\ call.bind_info = lindelEncodingBindData(KindOfName(call.name))
     /\ call.copy # NoBind
          => /\ call.copy.encoding_type = call.bind_info.encoding_type
             /\ Equals(call.bind_info, call.copy)
             /\ Equals(call.copy, call.bind_info)

\* C30: the descriptor of a bound call is immutable: its encoding kind is 0
\* exactly for hilbert_encode and hilbert_decode and 1 exactly for
\* morton_encode and morton_decode, before and after every batch, and Copy()
\* gives a descriptor of the same kind that Equals() reports equal to it.
DescriptorImmutable ==
  DescriptorOfName(enc) /\ DescriptorOfName(dec)

\* the Morton descriptors of an executed nested expression have been copied
DescriptorImmutableWitness ==
  /\ plan = "nested"
  /\ enc.pc = "done"
  /\ dec.pc = "done"
  /\ enc.name = "morton_encode"
  /\ enc.bind_info.encoding_type = 1
  /\ enc.copy = lindelEncodingBindData(1)
  /\ dec.copy = lindelEncodingBindData(1)
  /\ Equals(dec.bind_info, dec.copy)

\* the call of thread t run alone on the memory as it was before both calls,
\* up to the row thread t has reached
SequentialCall(t, stale_mem) ==
  LET result_data == ResultData(stale_mem, ResultPointer(par.lens, t))
      rows == [par.args[t] EXCEPT !.size = par.i[t]]
  IN  IF par.kind = "encode"
        THEN IF par.returned[t]
               THEN lindelEncodeArrayFunc(par.bind_info, par.child_type, par.length,
                                          par.args[t], result_data)
               ELSE EncodeRows(par.bind_info, par.child_type, par.length, rows,
                               StartOfCall(result_data), 0)
        ELSE IF par.returned[t]
               THEN lindelDecodeArrayFun(par.bind_info, par.return_type, par.args[t],
                                         result_data)
               ELSE DecodeRows(par.bind_info, par.return_type, rows,
                               StartOfCall(result_data), 0)

\* the bits of memory inside the result buffer of thread t
OwnBuffer(mem, t) ==
  LET result_data == ResultPointer(par.lens, t)
      end == result_data + par.lens[t]
  IN  { a \in mem : a >= result_data /\ a < end }

\* the bits of memory outside both result buffers
OutsideBuffers(mem) ==
  LET first == ResultPointer(par.lens, 1)
      second == ResultPointer(par.lens, 2)
      first_end == first + par.lens[1]
      second_end == second + par.lens[2]
  IN  { a \in mem : ~(a >= first /\ a < first_end) /\ ~(a >= second /\ a < second_end) }

\* the memory after the call of thread 1 and then the call of thread 2
OneAfterTheOther ==
  LET first == SequentialCall(1, par.stale)
      mem1 == StoreResultData(first.data, ResultPointer(par.lens, 1))
      second == SequentialCall(2, mem1)
  IN  StoreResultData(second.data, ResultPointer(par.lens, 2))

\* C22: two calls sharing one bound descriptor and running concurrently on
\* disjoint input and output buffers produce, under every interleaving of
\* their row steps, exactly what they produce when run one after the other:
\* at every point each call's buffer, null rows, codec calls and status are
\* those of the call run alone up to its current row, the memory outside the
\* two buffers is untouched, and when both have returned the memory is the one
\* left by the first call followed by the second.
InterleavingIsSequential ==
  par.pc = "running"
  => /\ \A t \in 1..2 :
          \E s \in { SequentialCall(t, par.stale) } :
            /\ par.r[t] = [s EXCEPT !.data = {}]
            /\ OwnBuffer(par.mem, t)
                 = OwnBuffer(StoreResultData(s.data, ResultPointer(par.lens, t)), t)
     /\ OutsideBuffers(par.mem) = OutsideBuffers(par.stale)
     /\ par.returned[1] /\ par.returned[2] => par.mem = OneAfterTheOther

\* both threads are inside their row loops, each with a row written and a row
\* to go, on the INTEGER[3] buffers whose rows overlap
InterleavingIsSequentialWitness ==
  /\ par.pc = "running"
  /\ par.kind = "encode"
  /\ par.child_type = "INTEGER"
  /\ par.length = 3
  /\ par.i = <<1, 1>>
  /\ par.args[1].size = 2
  /\ par.args[2].size = 2
  /\ par.returned = <<FALSE, FALSE>>
  /\ par.r[1].calls # {}
  /\ par.r[2].calls # {}
  /\ OwnBuffer(par.mem, 1) # OwnBuffer(par.stale, 1)
  /\ OwnBuffer(par.mem, 2) # OwnBuffer(par.stale, 2)

\* both decode threads have returned, one of them with a null row
InterleavingDecodeWitness ==
  /\ par.pc = "running"
  /\ par.kind = "decode"
  /\ par.returned = <<TRUE, TRUE>>
  /\ par.args[1].size = 2
  /\ par.args[2].size = 2
  /\ par.r[1].nulls # {}
  /\ par.mem # par.stale

====
